---- MODULE Spec2Model ----
(***************************************************************************)
(* Model of conf.go (package hdfs): LoadHadoopConf, HadoopConf.Namenodes   *)
(* and GetDefaultFS, with the package-level variable defaultFS.            *)
(*                                                                         *)
(* A Go string is modelled as the sequence of its bytes (a tuple of byte   *)
(* values), so that prefixes, concatenation and the byte-wise order used   *)
(* by sort.Strings are computed, not assumed.  A Go string VARIABLE is a   *)
(* two-word header (data pointer, length); the package variable defaultFS  *)
(* is modelled as that header, [data |-> bytes of the backing array,       *)
(* len |-> length word], because the unsynchronised accesses of            *)
(* Namenodes and GetDefaultFS read and write it one word at a time.        *)
(***************************************************************************)
EXTENDS Integers, Sequences, FiniteSets, TLC

VARIABLES
    files,       \* the file system: path -> document stored there
    env,         \* the process environment: HADOOP_CONF_DIR, HADOOP_HOME
    conf,        \* the HadoopConf in use (result of LoadHadoopConf / receiver of Namenodes)
    defaultFS,   \* the package variable defaultFS (a string header)
    op,          \* the operation that ran last ("none" before the first)
    load,        \* the most recent LoadHadoopConf call: argument, files it read
    call,        \* the most recent Namenodes call: argument and returns
    got,         \* the value the most recent GetDefaultFS returned
    determined,  \* history: the name determined by the most recent call that determined one
    pc,          \* per caller: position inside Namenodes / GetDefaultFS (interleaved callers)
    local,       \* per caller: locals of the running call
    ghost        \* per caller: history of the interleaving (who wrote since my call)

vars == <<files, env, conf, defaultFS, op, load, call, got, determined, pc, local, ghost>>

----------------------------------------------------------------------------
(* Bounds of the model *)

\* number of namenode key suffixes (nn1, nn2, ...) of cluster "a" a configuration may hold
MaxNN == 3
\* number of distinct namenode address values
MaxHosts == 2
\* number of <property> elements a configuration file may hold
MaxProps == 2

----------------------------------------------------------------------------
(* Go strings as byte sequences *)

Empty == <<>>

\* "hdfs://"  (conf.go:78)
HdfsScheme == <<104, 100, 102, 115, 58, 47, 47>>

\* "fs.defaultFS"  (conf.go:77)
FsDefaultFSKey == <<102, 115, 46, 100, 101, 102, 97, 117, 108, 116, 70, 83>>

\* "dfs.namenode.rpc-address."  (conf.go:91, the format string up to %s)
RpcAddressPrefix ==
    <<100, 102, 115, 46, 110, 97, 109, 101, 110, 111, 100, 101, 46,
      114, 112, 99, 45, 97, 100, 100, 114, 101, 115, 115, 46>>

\* "."  (conf.go:91, the format string after %s)
Dot == <<46>>

\* strings.HasPrefix(s, prefix)
HasPrefix(s, prefix) ==
    /\ Len(s) >= Len(prefix)
    /\ SubSeq(s, 1, Len(prefix)) = prefix

\* strings.TrimPrefix(s, prefix)
TrimPrefix(s, prefix) ==
    IF HasPrefix(s, prefix) THEN SubSeq(s, Len(prefix) + 1, Len(s)) ELSE s

\* fmt.Sprintf("dfs.namenode.rpc-address.%s.", name)
Sprintf(name) == RpcAddressPrefix \o name \o Dot

\* Go's string comparison a < b: byte-wise, a proper prefix is smaller
StrLess(a, b) ==
    \E i \in 1..(Len(b)) :
        /\ \A j \in 1..(i - 1) : j <= Len(a) /\ a[j] = b[j]
        /\ \/ i = Len(a) + 1
           \/ i <= Len(a) /\ a[i] < b[i]

\* the header of a string variable holding s
Str(s) == [data |-> s, len |-> Len(s)]

----------------------------------------------------------------------------
(* HadoopConf.Namenodes and GetDefaultFS  (conf.go:69-112) *)

errUnresolvedDefaultFS == "no defaultFS in configuration"
errUnresolvedNamenode == "no namenode address in configuration"
nil == "nil"

\* conf.go:73-80: the local defaultFsName once the if/else has run.  It is
\* declared empty, and assigned only in the branch taken without an override.
DefaultFsName(c, givenFS) ==
    IF givenFS = Empty
    THEN IF FsDefaultFSKey \in DOMAIN c
         THEN TrimPrefix(c[FsDefaultFSKey], HdfsScheme)
         ELSE Empty
    ELSE Empty

\* mutant of ReturnsUnresolvedDefaultFS: only an absent key is unresolved
ReturnsUnresolvedDefaultFSKeyAbsent(c, givenFS) ==
    givenFS = Empty /\ FsDefaultFSKey \notin DOMAIN c

\* conf.go:81-83: the early return
ReturnsUnresolvedDefaultFS(c, givenFS) ==
    givenFS = Empty /\ DefaultFsName(c, givenFS) = Empty

\* mutant of AssignedFS: the override is stripped of hdfs:// before it is stored
AssignedFSTrimmed(c, givenFS) ==
    IF givenFS = Empty THEN DefaultFsName(c, givenFS) ELSE TrimPrefix(givenFS, HdfsScheme)

\* mutant of AssignedFS: the local defaultFsName is stored in both branches
AssignedFSLocalName(c, givenFS) == DefaultFsName(c, givenFS)

\* conf.go:84 and 86: the value assigned to the package variable
AssignedFS(c, givenFS) ==
    IF givenFS = Empty THEN DefaultFsName(c, givenFS) ELSE givenFS

\* conf.go:90-95: the set nns
CollectNNs(c, givenFS) ==
    LET k == Sprintf(DefaultFsName(c, givenFS))
    IN  {c[key] : key \in {x \in DOMAIN c : HasPrefix(x, k)}}

\* the orders in which ranging over a Go map may visit the members of S
MapOrders(S) ==
    {o \in [1..Cardinality(S) -> S] : \A i, j \in 1..Cardinality(S) : o[i] = o[j] => i = j}

\* sort.Strings: s with x inserted before the first element not smaller than x
RECURSIVE Insert(_, _)
Insert(x, s) ==
    IF s = <<>> THEN <<x>>
    ELSE IF StrLess(Head(s), x) THEN <<Head(s)>> \o Insert(x, Tail(s))
    ELSE <<x>> \o s

\* mutant of SortStrings: the slice is returned in map order
SortStringsUnsorted(s) == s

\* sort.Strings(keys)  (conf.go:106)
RECURSIVE SortStrings(_)
SortStrings(s) ==
    IF s = <<>> THEN <<>> ELSE Insert(Head(s), SortStrings(Tail(s)))

\* conf.go:97-107: what Namenodes returns once defaultFS is assigned; order is
\* the order in which the range over nns filled the slice keys
LookupReturn(c, givenFS, order) ==
    IF CollectNNs(c, givenFS) = {}
    THEN [keys |-> <<>>, err |-> errUnresolvedNamenode]
    ELSE [keys |-> SortStrings(order), err |-> nil]

\* The filesystem name a call works with: the override if one is given,
\* otherwise the value of fs.defaultFS without its hdfs:// prefix (empty when
\* the key is absent).
NameUsed(c, givenFS) ==
    IF givenFS # Empty THEN givenFS
    ELSE IF FsDefaultFSKey \in DOMAIN c THEN TrimPrefix(c[FsDefaultFSKey], HdfsScheme)
    ELSE Empty

\* mutant of Namenodes: defaultFS is assigned before the early return
NamenodesAssignFirst(givenFS) ==
    /\ op' = "Namenodes"
    /\ defaultFS' = Str(AssignedFS(conf, givenFS))
    /\ IF ReturnsUnresolvedDefaultFS(conf, givenFS)
       THEN /\ call' = [givenFS |-> givenFS, keys |-> <<>>, err |-> errUnresolvedDefaultFS]
            /\ UNCHANGED determined
       ELSE /\ determined' = NameUsed(conf, givenFS)
            /\ \E order \in MapOrders(CollectNNs(conf, givenFS)) :
                   call' = [givenFS |-> givenFS] @@ LookupReturn(conf, givenFS, order)
    /\ UNCHANGED <<files, env, conf, load, got, pc, local, ghost>>

\* conf.go:71-108, one whole call on the receiver conf
Namenodes(givenFS) ==
    /\ op' = "Namenodes"
    /\ IF ReturnsUnresolvedDefaultFS(conf, givenFS)
       THEN /\ call' = [givenFS |-> givenFS, keys |-> <<>>, err |-> errUnresolvedDefaultFS]
            /\ UNCHANGED <<defaultFS, determined>>
       ELSE /\ defaultFS' = Str(AssignedFS(conf, givenFS))
            /\ determined' = NameUsed(conf, givenFS)
            /\ \E order \in MapOrders(CollectNNs(conf, givenFS)) :
                   call' = [givenFS |-> givenFS] @@ LookupReturn(conf, givenFS, order)
    /\ UNCHANGED <<files, env, conf, load, got, pc, local, ghost>>

\* conf.go:110-112
GetDefaultFS ==
    /\ op' = "GetDefaultFS"
    /\ got' = defaultFS
    /\ UNCHANGED <<files, env, conf, defaultFS, load, call, determined, pc, local, ghost>>

----------------------------------------------------------------------------
(* Inputs of the Namenodes specification *)

ClusterA == <<97>>
ClusterB == <<98>>

\* "nn1", "nn2", "nn3", "nn4"
SuffixNames == << <<110, 110, 49>>, <<110, 110, 50>>, <<110, 110, 51>>, <<110, 110, 52>> >>

\* "h2", "h10", "h1": byte-wise order is h1 < h10 < h2
HostNames == << <<104, 50>>, <<104, 49, 48>>, <<104, 49>> >>

Hosts == {HostNames[i] : i \in 1..MaxHosts}

\* dfs.namenode.rpc-address.<cluster>.<suffix>
NNKey(cluster, suffix) == Sprintf(cluster) \o suffix

\* the keys of cluster "a" and one key of the cluster with the empty name
NNKeys ==
    {NNKey(ClusterA, SuffixNames[i]) : i \in 1..MaxNN}
        \cup {NNKey(Empty, SuffixNames[1])}

\* values of fs.defaultFS: "", "hdfs://", "hdfs://a", "a", "b"
FsValues == {Empty, HdfsScheme, HdfsScheme \o ClusterA, ClusterA, ClusterB}

\* the override names: none, "a", "hdfs://a"
Overrides == {Empty, ClusterA, HdfsScheme \o ClusterA}

EmptyConf == [k \in {} |-> Empty]

Confs ==
    LET nn == UNION {[D -> Hosts] : D \in SUBSET NNKeys}
    IN  nn \cup {(FsDefaultFSKey :> v) @@ f : v \in FsValues, f \in nn}

\* before the first Namenodes call returns
NoCall == [givenFS |-> Empty, keys |-> <<>>, err |-> "not called"]
NoLoad == [path |-> Empty, read |-> <<>>]

Init ==
    /\ conf \in Confs
    /\ defaultFS = Str(Empty)
    /\ op = "none"
    /\ call = NoCall
    /\ got = Str(Empty)
    /\ determined = Empty
    /\ files = EmptyConf
    /\ env = EmptyConf
    /\ load = NoLoad
    /\ pc = EmptyConf
    /\ local = EmptyConf
    /\ ghost = EmptyConf

Next ==
    \/ \E givenFS \in Overrides : Namenodes(givenFS)
    \/ GetDefaultFS

Spec == Init /\ [][Next]_vars

----------------------------------------------------------------------------
(* LoadHadoopConf  (conf.go:39-67) *)

\* "/"  (os.PathSeparator)
Slash == <<47>>

\* "conf"  (conf.go:44)
ConfDirName == <<99, 111, 110, 102>>

\* "core-site.xml", "hdfs-site.xml"  (conf.go:49)
CoreSite == <<99, 111, 114, 101, 45, 115, 105, 116, 101, 46, 120, 109, 108>>
HdfsSite == <<104, 100, 102, 115, 45, 115, 105, 116, 101, 46, 120, 109, 108>>
ConfFiles == <<CoreSite, HdfsSite>>

\* os.Getenv(name): the value, empty when the variable is not set
Getenv(name) == IF name \in DOMAIN env THEN env[name] ELSE Empty

\* strings.Join(elems, "/")
RECURSIVE JoinSlash(_)
JoinSlash(elems) ==
    IF elems = <<>> THEN Empty
    ELSE IF Len(elems) = 1 THEN Head(elems)
    ELSE Head(elems) \o Slash \o JoinSlash(Tail(elems))

\* filepath.Clean on a path without "." and ".." elements: repeated
\* separators collapse and a trailing separator (but for the root) is dropped
RECURSIVE Clean(_)
Clean(p) ==
    IF Len(p) <= 1 THEN p
    ELSE IF p[1] = 47 /\ p[2] = 47 THEN Clean(Tail(p))
    ELSE IF Len(p) = 2 /\ p[2] = 47 THEN <<p[1]>>
    ELSE <<p[1]>> \o Clean(Tail(p))

\* filepath.Join(elems...): leading empty elements are skipped, the rest is
\* joined with the separator and cleaned
RECURSIVE Join(_)
Join(elems) ==
    IF elems = <<>> THEN Empty
    ELSE IF Head(elems) = Empty THEN Join(Tail(elems))
    ELSE Clean(JoinSlash(elems))

\* mutant of ResolveDir: HADOOP_CONF_DIR takes precedence over the argument
ResolveDirEnvFirst(path) ==
    IF Getenv("HADOOP_CONF_DIR") # Empty THEN Getenv("HADOOP_CONF_DIR")
    ELSE IF path # Empty THEN path
    ELSE Join(<<Getenv("HADOOP_HOME"), ConfDirName>>)

\* conf.go:41-46: the directory the files are read from
ResolveDir(path) ==
    IF path = Empty
    THEN IF Getenv("HADOOP_CONF_DIR") = Empty
         THEN Join(<<Getenv("HADOOP_HOME"), ConfDirName>>)
         ELSE Getenv("HADOOP_CONF_DIR")
    ELSE path

\* ioutil.ReadFile(p): err # nil when no file is at p or it cannot be read
ReadFile(p) ==
    IF p \in DOMAIN files /\ files[p].readable
    THEN [f |-> files[p], err |-> FALSE]
    ELSE [f |-> <<>>, err |-> TRUE]

\* xml.Unmarshal(f, &pList): on a syntax error the decoder has filled pList
\* with the properties it met before the error, and err # nil
Unmarshal(f) == [pList |-> f.props, err |-> ~f.wellFormed]

\* mutant of Put: an existing entry is kept (first writer wins)
PutKeepFirst(m, prop) == m @@ (prop.Name :> prop.Value)

\* conf.go:62: hadoopConf[prop.Name] = prop.Value
Put(m, prop) == (prop.Name :> prop.Value) @@ m

\* conf.go:61-63
RECURSIVE PutAll(_, _)
PutAll(m, pList) ==
    IF pList = <<>> THEN m ELSE PutAll(Put(m, Head(pList)), Tail(pList))

\* conf.go:50-63: the body of the loop for one file name
LoadFile(m, dir, file) ==
    LET r == ReadFile(Join(<<dir, file>>))
    IN  IF r.err THEN m
        ELSE IF Unmarshal(r.f).err THEN m
        ELSE PutAll(m, Unmarshal(r.f).pList)

\* mutant of LoadFiles: the loop ends at the first file that cannot be read
\* or parsed (return instead of continue)
RECURSIVE LoadFilesStopOnError(_, _, _)
LoadFilesStopOnError(m, dir, names) ==
    IF names = <<>> THEN m
    ELSE LET r == ReadFile(Join(<<dir, Head(names)>>))
         IN  IF r.err \/ Unmarshal(r.f).err THEN m
             ELSE LoadFilesStopOnError(LoadFile(m, dir, Head(names)), dir, Tail(names))

\* conf.go:49-64: the loop over the file names
RECURSIVE LoadFiles(_, _, _)
LoadFiles(m, dir, names) ==
    IF names = <<>> THEN m
    ELSE LoadFiles(LoadFile(m, dir, Head(names)), dir, Tail(names))

\* conf.go:39-67, one whole call
LoadHadoopConf(path) ==
    /\ op' = "LoadHadoopConf"
    /\ conf' = LoadFiles(EmptyConf, ResolveDir(path), ConfFiles)
    /\ load' = [path |-> path,
                read |-> [i \in 1..Len(ConfFiles) |->
                             Join(<<ResolveDir(path), ConfFiles[i]>>)]]
    /\ UNCHANGED <<files, env, defaultFS, call, got, determined, pc, local, ghost>>

----------------------------------------------------------------------------
(* Inputs of the LoadHadoopConf specification *)

\* property names "k1", "k2" and values "v1", "v2"; "v0" marks the stock files
PropNames == { <<107, 49>>, <<107, 50>> }
PropValues == { <<118, 49>>, <<118, 50>> }
StockValue == <<118, 48>>

\* k1 = v1, k1 = v2, k2 = v1
Properties ==
    {pr \in [Name : PropNames, Value : PropValues] :
        pr.Name = <<107, 49>> \/ pr.Value = <<118, 49>>}

PropLists(n) == UNION {[1..k -> Properties] : k \in 0..n}

\* what may be stored at a path: a property list document, a document the
\* decoder rejects after some properties, or something that cannot be read
Docs ==
    {[readable |-> TRUE, wellFormed |-> TRUE, props |-> l] : l \in PropLists(MaxProps)}
        \cup {[readable |-> TRUE, wellFormed |-> FALSE, props |-> l] : l \in PropLists(1)}
        \cup {[readable |-> FALSE, wellFormed |-> TRUE, props |-> <<>>]}

StockDoc(name) ==
    [readable |-> TRUE, wellFormed |-> TRUE,
     props |-> <<[Name |-> name, Value |-> StockValue]>>]

\* "/p";  "/c/";  "/h"
PathArgs == {Empty, <<47, 112>>}
ConfDirs == {Empty, <<47, 99, 47>>}
HomeDirs == {Empty, <<47, 104>>}

\* the directories a call can resolve to: "/p", "/c", "/h/conf", "conf"
Dirs == { <<47, 112>>, <<47, 99>>, <<47, 104>> \o Slash \o ConfDirName, ConfDirName }

FilePath(dir, file) == dir \o Slash \o file

\* One directory holds the two files under test, each possibly missing; every
\* other directory holds stock files.
FileSystems ==
    {[p \in {FilePath(d, f) : d \in Dirs \ {t}, f \in {CoreSite, HdfsSite}}
          |-> StockDoc(IF SubSeq(p, Len(p) - Len(CoreSite) + 1, Len(p)) = CoreSite
                       THEN <<107, 49>> ELSE <<107, 50>>)]
        @@ [p \in {FilePath(t, CoreSite) : x \in core} |-> CHOOSE x \in core : TRUE]
        @@ [p \in {FilePath(t, HdfsSite) : x \in hdfs} |-> CHOOSE x \in hdfs : TRUE]
     : t \in Dirs,
       core \in {{}} \cup {{d} : d \in Docs},
       hdfs \in {{}} \cup {{d} : d \in Docs}}

InitLoad ==
    /\ files \in FileSystems
    /\ env \in {("HADOOP_CONF_DIR" :> c) @@ ("HADOOP_HOME" :> h) : c \in ConfDirs, h \in HomeDirs}
    /\ conf = EmptyConf
    /\ load = NoLoad
    /\ op = "none"
    /\ defaultFS = Str(Empty)
    /\ call = NoCall
    /\ got = Str(Empty)
    /\ determined = Empty
    /\ pc = EmptyConf
    /\ local = EmptyConf
    /\ ghost = EmptyConf

NextLoad == \E path \in PathArgs : LoadHadoopConf(path)

SpecLoad == InitLoad /\ [][NextLoad]_vars

----------------------------------------------------------------------------
(* Two callers running Namenodes and GetDefaultFS without synchronisation.  *)
(* Go gives a data race on defaultFS no meaning beyond word granularity:    *)
(* the two words of the string header are stored and loaded separately, in  *)
(* either order, and the steps of the callers interleave.                   *)

Procs == {1, 2}

Words == {"data", "len"}

\* a caller between two calls
Between(p) == pc[p] \in {"idle", "returned", "got"}

Locals0 ==
    [givenFS |-> Empty, fs |-> Empty, pending |-> {}, hdr |-> Str(Empty),
     keys |-> <<>>, err |-> "not called"]

\* conf.go:72-83: a caller enters Namenodes and runs up to the assignment
NnBegin(p, givenFS) ==
    /\ Between(p)
    /\ IF ReturnsUnresolvedDefaultFS(conf, givenFS)
       THEN /\ pc' = [pc EXCEPT ![p] = "returned"]
            /\ local' = [local EXCEPT ![p] =
                            [Locals0 EXCEPT !.givenFS = givenFS,
                                            !.err = errUnresolvedDefaultFS]]
            /\ UNCHANGED ghost
       ELSE /\ pc' = [pc EXCEPT ![p] = "assign"]
            /\ local' = [local EXCEPT ![p] =
                            [Locals0 EXCEPT !.givenFS = givenFS,
                                            !.fs = AssignedFS(conf, givenFS),
                                            !.pending = Words]]
            /\ ghost' = [ghost EXCEPT ![p] =
                            [mine |-> NameUsed(conf, givenFS), resolved |-> TRUE,
                             undisturbed |-> TRUE]]
    /\ UNCHANGED <<files, env, conf, defaultFS, op, load, call, got, determined>>

\* conf.go:84 and 86: one word of the assignment to defaultFS
NnStoreWord(p, w) ==
    /\ pc[p] = "assign"
    /\ w \in local[p].pending
    /\ defaultFS' = [defaultFS EXCEPT ![w] = Str(local[p].fs)[w]]
    /\ local' = [local EXCEPT ![p].pending = @ \ {w}]
    /\ pc' = [pc EXCEPT ![p] = IF local[p].pending = {w} THEN "lookup" ELSE "assign"]
    /\ ghost' = [q \in Procs |->
                    IF q = p THEN ghost[q] ELSE [ghost[q] EXCEPT !.undisturbed = FALSE]]
    /\ UNCHANGED <<files, env, conf, op, load, call, got, determined>>

\* conf.go:89-107: the rest of the call
NnLookup(p) ==
    /\ pc[p] = "lookup"
    /\ \E order \in MapOrders(CollectNNs(conf, local[p].givenFS)) :
           LET r == LookupReturn(conf, local[p].givenFS, order)
           IN  local' = [local EXCEPT ![p].keys = r.keys, ![p].err = r.err]
    /\ pc' = [pc EXCEPT ![p] = "returned"]
    /\ UNCHANGED <<files, env, conf, defaultFS, op, load, call, got, determined, ghost>>

\* conf.go:110: a caller enters GetDefaultFS
GetBegin(p) ==
    /\ Between(p)
    /\ pc' = [pc EXCEPT ![p] = "get"]
    /\ local' = [local EXCEPT ![p].pending = Words, ![p].hdr = Str(Empty)]
    /\ UNCHANGED <<files, env, conf, defaultFS, op, load, call, got, determined, ghost>>

\* conf.go:111: one word of the load of defaultFS; with the second word the
\* call returns the header it has put together
GetLoadWord(p, w) ==
    /\ pc[p] = "get"
    /\ w \in local[p].pending
    /\ local' = [local EXCEPT ![p].pending = @ \ {w}, ![p].hdr[w] = defaultFS[w]]
    /\ pc' = [pc EXCEPT ![p] = IF local[p].pending = {w} THEN "got" ELSE "get"]
    /\ UNCHANGED <<files, env, conf, defaultFS, op, load, call, got, determined, ghost>>

\* the configurations of the interleaved callers: fs.defaultFS absent or "b",
\* the first namenode key of cluster "a" absent or present
RaceConfs ==
    {c \in Confs :
        /\ DOMAIN c \subseteq {FsDefaultFSKey, NNKey(ClusterA, SuffixNames[1])}
        /\ FsDefaultFSKey \in DOMAIN c => c[FsDefaultFSKey] = ClusterB}

InitRace ==
    /\ conf \in RaceConfs
    /\ defaultFS = Str(Empty)
    /\ pc = [p \in Procs |-> "idle"]
    /\ local = [p \in Procs |-> Locals0]
    /\ ghost = [p \in Procs |-> [mine |-> Empty, resolved |-> FALSE, undisturbed |-> FALSE]]
    /\ op = "none"
    /\ call = NoCall
    /\ got = Str(Empty)
    /\ determined = Empty
    /\ files = EmptyConf
    /\ env = EmptyConf
    /\ load = NoLoad

NextRace ==
    \E p \in Procs :
        \/ \E givenFS \in Overrides : NnBegin(p, givenFS)
        \/ \E w \in Words : NnStoreWord(p, w)
        \/ NnLookup(p)
        \/ GetBegin(p)
        \/ \E w \in Words : GetLoadWord(p, w)

SpecRace == InitRace /\ [][NextRace]_vars

----------------------------------------------------------------------------
(* Vocabulary of the properties *)

\* lexicographic (byte-wise) order of strings, stated by recursion on the strings
RECURSIVE LexLess(_, _)
LexLess(a, b) ==
    IF b = <<>> THEN FALSE
    ELSE IF a = <<>> THEN TRUE
    ELSE \/ Head(a) < Head(b)
         \/ Head(a) = Head(b) /\ LexLess(Tail(a), Tail(b))

StrictlyAscending(s) == \A i \in 1..(Len(s) - 1) : LexLess(s[i], s[i + 1])

Range(s) == {s[i] : i \in 1..Len(s)}

\* the keys of c that start with dfs.namenode.rpc-address.<name>.
KeysOfCluster(c, name) ==
    {k \in DOMAIN c : HasPrefix(k, RpcAddressPrefix \o name \o Dot)}

ValuesOfCluster(c, name) == {c[k] : k \in KeysOfCluster(c, name)}

HasDefaultFS(c) == FsDefaultFSKey \in DOMAIN c

StrippedDefaultFS(c) == TrimPrefix(c[FsDefaultFSKey], HdfsScheme)

----------------------------------------------------------------------------
(* Properties of Namenodes and GetDefaultFS, specification Spec *)

\* C1 (as claimed): a call with a non-empty override N returns exactly the
\* values of the keys that start with dfs.namenode.rpc-address.N. (and fails
\* with UnresolvedNamenode only when there is none).
C1_OverrideIsLookupName ==
    (op = "Namenodes" /\ call.givenFS # Empty) =>
        LET vals == ValuesOfCluster(conf, call.givenFS)
        IN  IF vals = {}
            THEN call.err = errUnresolvedNamenode
            ELSE call.err = nil /\ Range(call.keys) = vals

\* C2 (as claimed): without an override, when fs.defaultFS stripped of hdfs://
\* is C and some key starts with dfs.namenode.rpc-address.C., the call succeeds
\* and returns a strictly ascending sequence whose elements are exactly the
\* values of those keys.
C2_DefaultLookupSorted ==
    (/\ op = "Namenodes"
     /\ call.givenFS = Empty
     /\ HasDefaultFS(conf)
     /\ KeysOfCluster(conf, StrippedDefaultFS(conf)) # {}) =>
        /\ call.err = nil
        /\ StrictlyAscending(call.keys)
        /\ Range(call.keys) = ValuesOfCluster(conf, StrippedDefaultFS(conf))

\* C2 (amended): the same, for a non-empty cluster name C.
C2_DefaultLookupSortedNonEmpty ==
    (/\ op = "Namenodes"
     /\ call.givenFS = Empty
     /\ HasDefaultFS(conf)
     /\ StrippedDefaultFS(conf) # Empty
     /\ KeysOfCluster(conf, StrippedDefaultFS(conf)) # {}) =>
        /\ call.err = nil
        /\ StrictlyAscending(call.keys)
        /\ Range(call.keys) = ValuesOfCluster(conf, StrippedDefaultFS(conf))

\* C2 witness: a call without override that sorted two addresses and dropped
\* a duplicate held under a third key, with a key of another cluster present.
C2_Witness ==
    /\ op = "Namenodes"
    /\ call.givenFS = Empty
    /\ call.err = nil
    /\ Len(call.keys) = 2
    /\ Cardinality(KeysOfCluster(conf, StrippedDefaultFS(conf))) = 3
    /\ NNKey(Empty, SuffixNames[1]) \in DOMAIN conf

\* C3 (as claimed): the call fails with UnresolvedDefaultFS exactly when no
\* override is given and the key fs.defaultFS is absent.
C3_UnresolvedIffKeyAbsent ==
    op = "Namenodes" =>
        (call.err = errUnresolvedDefaultFS
            <=> (call.givenFS = Empty /\ ~HasDefaultFS(conf)))

\* C3 (amended): the call fails with UnresolvedDefaultFS exactly when no
\* override is given and fs.defaultFS is absent or, stripped of hdfs://, empty.
C3_UnresolvedIffNameEmpty ==
    op = "Namenodes" =>
        (call.err = errUnresolvedDefaultFS
            <=> (/\ call.givenFS = Empty
                 /\ (~HasDefaultFS(conf) \/ StrippedDefaultFS(conf) = Empty)))

\* C3 witness: the key is present with the bare value hdfs:// and the call
\* without override failed with UnresolvedDefaultFS.
C3_Witness ==
    /\ op = "Namenodes"
    /\ HasDefaultFS(conf)
    /\ conf[FsDefaultFSKey] = HdfsScheme
    /\ call.err = errUnresolvedDefaultFS

\* C4 (as claimed): once a cluster name C is determined (the override, or the
\* stripped fs.defaultFS), the call fails with UnresolvedNamenode and returns
\* no address when no key starts with dfs.namenode.rpc-address.C., and it
\* succeeds only when such a key exists.
C4_UnresolvedNamenodeIffNoKey ==
    (op = "Namenodes" /\ call.err # errUnresolvedDefaultFS) =>
        LET C == NameUsed(conf, call.givenFS)
        IN  /\ KeysOfCluster(conf, C) = {} =>
                call.err = errUnresolvedNamenode /\ call.keys = <<>>
            /\ call.err = nil => KeysOfCluster(conf, C) # {}

\* C5 (as claimed): every call, failing or not, leaves defaultFS holding the
\* value used: the literal override, else the stripped fs.defaultFS value.
C5_EveryCallOverwrites ==
    (op = "Namenodes" /\ (call.givenFS # Empty \/ HasDefaultFS(conf))) =>
        defaultFS = Str(NameUsed(conf, call.givenFS))

\* C5 (amended): every call that does not fail with UnresolvedDefaultFS,
\* whether it succeeds or fails with UnresolvedNamenode, leaves defaultFS
\* holding the value used (the literal override, else the stripped
\* fs.defaultFS value), and GetDefaultFS called right after returns it.
C5_ResolvingCallOverwrites ==
    /\ (op = "Namenodes" /\ call.err # errUnresolvedDefaultFS) =>
           defaultFS = Str(NameUsed(conf, call.givenFS))
    /\ (op = "GetDefaultFS" /\ call.err \in {nil, errUnresolvedNamenode}) =>
           got = Str(NameUsed(conf, call.givenFS))

\* C5 witness: a call with the override hdfs://a failed with UnresolvedNamenode
\* and GetDefaultFS then returned the unstripped override.
C5_Witness ==
    /\ op = "GetDefaultFS"
    /\ call.err = errUnresolvedNamenode
    /\ call.givenFS = HdfsScheme \o ClusterA
    /\ got = Str(HdfsScheme \o ClusterA)

\* C6: GetDefaultFS returns the name determined by the most recent call that
\* determined one (empty before the first); a call failing with
\* UnresolvedDefaultFS and GetDefaultFS leave defaultFS unchanged; once
\* non-empty, defaultFS never becomes empty again.
C6_Lifecycle ==
    [][/\ op' = "GetDefaultFS" => got' = Str(determined')
       /\ defaultFS # Str(Empty) => defaultFS' # Str(Empty)
       /\ (\/ op' = "GetDefaultFS"
           \/ op' = "Namenodes" /\ call'.err = errUnresolvedDefaultFS)
              => defaultFS' = defaultFS]_vars

\* C6 witness: a name was set, a later call failed with UnresolvedDefaultFS,
\* and GetDefaultFS still returned the earlier name.
C6_Witness ==
    /\ op = "GetDefaultFS"
    /\ call.err = errUnresolvedDefaultFS
    /\ got # Str(Empty)
    /\ got = Str(determined)

----------------------------------------------------------------------------
(* Properties of LoadHadoopConf, specification SpecLoad *)

\* a file the loader can use: present, readable and well-formed
Usable(p) == p \in DOMAIN files /\ files[p].readable /\ files[p].wellFormed

\* the properties a file contributes
PropsAt(p) == IF Usable(p) THEN files[p].props ELSE <<>>

NamesIn(l) == {l[i].Name : i \in 1..Len(l)}

\* the value of the last property of l named k
LastValue(l, k) ==
    l[CHOOSE i \in 1..Len(l) :
          l[i].Name = k /\ \A j \in (i + 1)..Len(l) : l[j].Name # k].Value

\* d without a trailing separator
NoTrailingSlash(d) ==
    IF Len(d) > 1 /\ d[Len(d)] = 47 THEN SubSeq(d, 1, Len(d) - 1) ELSE d

\* the directory the claimed order of precedence selects
ExpectedDir(path) ==
    IF path # Empty THEN NoTrailingSlash(path)
    ELSE IF env["HADOOP_CONF_DIR"] # Empty THEN NoTrailingSlash(env["HADOOP_CONF_DIR"])
    ELSE IF env["HADOOP_HOME"] # Empty
         THEN NoTrailingSlash(env["HADOOP_HOME"]) \o Slash \o ConfDirName
    ELSE ConfDirName

\* C7: LoadHadoopConf always returns a configuration; a file that cannot be
\* read or parsed contributes no entry and does not keep the other file from
\* being loaded; with neither file usable the configuration is empty.
C7_LoadNeverFails ==
    op = "LoadHadoopConf" =>
        /\ DOMAIN conf = NamesIn(PropsAt(load.read[1])) \cup NamesIn(PropsAt(load.read[2]))
        /\ (~Usable(load.read[1]) /\ ~Usable(load.read[2])) => conf = EmptyConf

\* C7 witness: core-site.xml is rejected by the decoder after a property was
\* decoded, hdfs-site.xml is usable, and the result holds entries.
C7_Witness ==
    /\ op = "LoadHadoopConf"
    /\ load.read[1] \in DOMAIN files
    /\ files[load.read[1]].readable
    /\ ~files[load.read[1]].wellFormed
    /\ files[load.read[1]].props # <<>>
    /\ Usable(load.read[2])
    /\ conf # EmptyConf

\* C8: a key defined in hdfs-site.xml carries the value of its last
\* definition there; a key defined only in core-site.xml carries the value of
\* its last definition there; no other key is present.
C8_LastWriterWins ==
    op = "LoadHadoopConf" =>
        LET core == PropsAt(load.read[1])
            hdfs == PropsAt(load.read[2])
        IN  \A k \in PropNames \cup DOMAIN conf :
                IF k \in NamesIn(hdfs)
                THEN k \in DOMAIN conf /\ conf[k] = LastValue(hdfs, k)
                ELSE IF k \in NamesIn(core)
                THEN k \in DOMAIN conf /\ conf[k] = LastValue(core, k)
                ELSE k \notin DOMAIN conf

\* C8 witness: both files define the same key, hdfs-site.xml twice with
\* different values, and the result carries the last hdfs-site.xml value,
\* which differs from the core-site.xml value.
C8_Witness ==
    /\ op = "LoadHadoopConf"
    /\ Usable(load.read[1])
    /\ Usable(load.read[2])
    /\ \E k \in DOMAIN conf :
          LET core == files[load.read[1]].props
              hdfs == files[load.read[2]].props
          IN  /\ Len(hdfs) = 2
              /\ hdfs[1].Name = k /\ hdfs[2].Name = k /\ hdfs[1].Value # hdfs[2].Value
              /\ k \in NamesIn(core) /\ LastValue(core, k) # hdfs[2].Value
              /\ conf[k] = hdfs[2].Value

\* C9: the two files are read from the path argument if it is non-empty,
\* otherwise from HADOOP_CONF_DIR if it is non-empty, otherwise from
\* <HADOOP_HOME>/conf, and the result is what the files of that directory hold.
C9_DirectoryPrecedence ==
    op = "LoadHadoopConf" =>
        LET dir == ExpectedDir(load.path)
        IN  /\ load.read = <<FilePath(dir, CoreSite), FilePath(dir, HdfsSite)>>
            /\ DOMAIN conf = NamesIn(PropsAt(FilePath(dir, CoreSite)))
                                 \cup NamesIn(PropsAt(FilePath(dir, HdfsSite)))

\* C9 witness: a call with a path argument while HADOOP_CONF_DIR is set loaded
\* the files under test from the argument's directory.
C9_Witness ==
    /\ op = "LoadHadoopConf"
    /\ load.path # Empty
    /\ env["HADOOP_CONF_DIR"] # Empty
    /\ conf # EmptyConf
    /\ \A k \in DOMAIN conf : conf[k] # StockValue

----------------------------------------------------------------------------
(* Properties of interleaved callers, specification SpecRace *)

\* C10: GetDefaultFS returns the name of the caller's own last resolution
\* only when no other caller has stored to defaultFS since that resolution
\* began; nothing orders the stores of different callers, and the witness is
\* a caller that resolved one name and then obtained the other caller's.
C10_OwnNameOnlyIfUndisturbed ==
    \A p \in Procs :
        (pc[p] = "got" /\ ghost[p].resolved /\ ghost[p].undisturbed) =>
            local[p].hdr = Str(ghost[p].mine)

\* C10 witness: caller 1 completed Namenodes for its name, then GetDefaultFS
\* returned to it the different name caller 2 resolved.
C10_Witness ==
    /\ pc[1] = "got"
    /\ local[1].err # errUnresolvedDefaultFS
    /\ ghost[1].resolved /\ ghost[2].resolved
    /\ ghost[1].mine # ghost[2].mine
    /\ local[1].hdr = Str(ghost[2].mine)

====
